---- MODULE Spec2Model ----
(***************************************************************************)
(* Model of the geography quiz: the game reducer and the useGeographyGame  *)
(* hook (src/app/hooks/useGeographyGame.ts), the difficulty filter         *)
(* (lib/types, lib/mapUtils) and the difficulty handler of the             *)
(* GeographyGame component.                                                *)
(*                                                                         *)
(* A nullable reference (CountryFeature | null) is a sequence of length    *)
(* at most one: Null is <<>>, a reference to c is <<c>>.  A string built   *)
(* from a template literal is the sequence of its pieces, "" is <<>>.      *)
(*                                                                         *)
(* A callback handed to setTimeout keeps the generateQuestion of the       *)
(* render in which the selection was made, and that generateQuestion keeps *)
(* the `countries` array of that render: a pending timer is modelled by    *)
(* the array it closed over.  Timers of equal delay run in the order in    *)
(* which they were set.                                                    *)
(***************************************************************************)
EXTENDS Integers, Sequences, FiniteSets, TLC

VARIABLES
    state,       \* the GameState held by useReducer
    difficulty,  \* the component's active difficulty (useState)
    mapData,     \* the loaded, normalized feature list (nullable)
    timers,      \* pending setTimeout callbacks, oldest first; each entry
                 \* is the `countries` array its generateQuestion closed over
    nScheduled,  \* number of setTimeout calls made so far
    nFired,      \* number of timer callbacks run so far
    lastOp,      \* the handler that ran last
    response,    \* how the fetch of the map file ends
    rawData,     \* the value response.json() gives loadMapData
    loading,     \* the component's loading flag (useState)
    error        \* the component's error message (nullable, useState)

vars == <<state, difficulty, mapData, timers, nScheduled, nFired, lastOp,
          response, rawData, loading, error>>

\* what the game's handlers leave alone
loadVars == <<response, rawData, loading, error>>

\* Bound on the number of accepted selections in one behaviour.
MaxSelections == 3

Null == <<>>
Some(x) == <<x>>

Range(s) == {s[i] : i \in 1..Len(s)}

----------------------------------------------------------------------------
\* Strings

\* A JavaScript string as the sequence of its characters, for the operations
\* that look inside one (includes, parseFloat, localeCompare).  The table
\* holds the strings the model uses.
Chars(s) ==
    CASE s = "" -> <<>>
      [] s = "France" -> <<"F", "r", "a", "n", "c", "e">>
      [] s = "Canada" -> <<"C", "a", "n", "a", "d", "a">>
      [] s = "Vatican" -> <<"V", "a", "t", "i", "c", "a", "n">>
      [] s = "Clipperton Island" -> <<"C", "l", "i", "p", "p", "e", "r", "t", "o", "n", " ", "I", "s", "l", "a", "n", "d">>
      [] s = "Unknown" -> <<"U", "n", "k", "n", "o", "w", "n">>
      [] s = "france" -> <<"f", "r", "a", "n", "c", "e">>
      [] s = "38000000" -> <<"3", "8", "0", "0", "0", "0", "0", "0">>
      [] s = "abc" -> <<"a", "b", "c">>
      [] s = "12abc" -> <<"1", "2", "a", "b", "c">>
      [] s = "-5" -> <<"-", "5">>
      [] s = " 42" -> <<" ", "4", "2">>
      [] s = "Correct! Well done!" -> <<"C", "o", "r", "r", "e", "c", "t", "!", " ", "W", "e", "l", "l", " ", "d", "o", "n", "e", "!">>
      [] s = "Incorrect. You selected " -> <<"I", "n", "c", "o", "r", "r", "e", "c", "t", ".", " ", "Y", "o", "u", " ", "s", "e", "l", "e", "c", "t", "e", "d", " ">>
      [] s = ", but the answer was " -> <<",", " ", "b", "u", "t", " ", "t", "h", "e", " ", "a", "n", "s", "w", "e", "r", " ", "w", "a", "s", " ">>
      [] s = "." -> <<".">>
      [] s = "Correct" -> <<"C", "o", "r", "r", "e", "c", "t">>
      [] s = "Kenya" -> <<"K", "e", "n", "y", "a">>
      [] s = "Spain" -> <<"S", "p", "a", "i", "n">>
      [] s = "Sweden" -> <<"S", "w", "e", "d", "e", "n">>
      [] s = "Cuba" -> <<"C", "u", "b", "a">>

\* String.prototype.includes on character sequences
Includes(hay, needle) ==
    \E i \in 1..(Len(hay) - Len(needle) + 1) :
        SubSeq(hay, i, i + Len(needle) - 1) = needle

\* the characters of a template literal given as the sequence of its pieces
RECURSIVE TemplateChars(_)
TemplateChars(pieces) ==
    IF pieces = <<>> THEN <<>>
    ELSE Chars(Head(pieces)) \o TemplateChars(Tail(pieces))

----------------------------------------------------------------------------
\* Data

Country(name, admin, iso, pop) ==
    [NAME |-> name, ADMIN |-> admin, NAME_LONG |-> name,
     ISO_A2 |-> iso, POP_EST |-> pop]

France     == Country("France", "France", "FR", 67000000)
Clipperton == Country("Clipperton Island", "Clipperton Island", "FR", 0)
Vatican    == Country("Vatican", "Vatican", "VA", 800)

\* A normalized list (sorted by NAME): one easy country, no medium country,
\* and two records that share an ISO code.
Dataset == <<Clipperton, France, Vatican>>

Difficulties == {"easy", "medium", "hard"}

EasyNames ==
    {"United States of America", "China", "India", "Brazil", "Russia",
     "Canada", "Australia", "Mexico", "Japan", "Germany", "United Kingdom",
     "France", "Italy"}

\* mutant: the easy pool without its allow-list
DifficultyFilterNoAllowList(d, country) ==
    CASE d = "easy"   -> country.POP_EST > 50000000
      [] d = "medium" -> country.POP_EST > 10000000 /\ country.POP_EST <= 50000000
      [] d = "hard"   -> TRUE

\* mutant: the allow-list is matched on NAME
DifficultyFilterByName(d, country) ==
    CASE d = "easy"   -> country.POP_EST > 50000000 \/ country.NAME \in EasyNames
      [] d = "medium" -> country.POP_EST > 10000000 /\ country.POP_EST <= 50000000
      [] d = "hard"   -> TRUE

\* mutant: the lower threshold of medium is included
DifficultyFilterMediumInclusive(d, country) ==
    CASE d = "easy"   -> country.POP_EST > 50000000 \/ country.ADMIN \in EasyNames
      [] d = "medium" -> country.POP_EST >= 10000000 /\ country.POP_EST <= 50000000
      [] d = "hard"   -> TRUE

DifficultyFilter(d, country) ==
    CASE d = "easy"   -> country.POP_EST > 50000000 \/ country.ADMIN \in EasyNames
      [] d = "medium" -> country.POP_EST > 10000000 /\ country.POP_EST <= 50000000
      [] d = "hard"   -> TRUE

\* mutant: the first country that passes is left out
filterCountriesByDifficultyDropsFirst(countries, d) ==
    LET passed == SelectSeq(countries, LAMBDA c : DifficultyFilter(d, c))
    IN  IF passed = <<>> THEN <<>> ELSE Tail(passed)

filterCountriesByDifficulty(countries, d) ==
    SelectSeq(countries, LAMBDA c : DifficultyFilter(d, c))

availableCountriesOf(md, d) ==
    IF md = Null THEN <<>> ELSE filterCountriesByDifficulty(md[1], d)

availableCountries == availableCountriesOf(mapData, difficulty)

----------------------------------------------------------------------------
\* Normalizer

\* Bound on the number of features of a fetched collection.
MaxFeatures == 3

\* A loosely typed JSON value: its typeof tag with its string or number.
Undefined == [t |-> "undefined", s |-> "", n |-> 0]
Str(x)    == [t |-> "string", s |-> x, n |-> 0]
Num(k)    == [t |-> "number", s |-> "", n |-> k]

TypeOf(v) == v.t

Truthy(v) ==
    CASE v.t = "string" -> v.s # ""
      [] v.t = "number" -> v.n # 0
      [] OTHER          -> FALSE

\* a || b
Or(a, b) == IF Truthy(a) THEN a ELSE b

\* RawCountryProperties
Props(name, admin, nameEn, nameLong, isoA2, iso, pop) ==
    [NAME |-> name, ADMIN |-> admin, NAME_EN |-> nameEn, NAME_LONG |-> nameLong,
     ISO_A2 |-> isoA2, ISO |-> iso, POP_EST |-> pop]

\* RawCountryFeature: `truthy` is false for a null entry, `properties` and
\* `geometry` are nullable.
Feature(type, props, geometryType) ==
    [truthy |-> TRUE, type |-> type, properties |-> Some(props),
     geometry |-> Some([type |-> geometryType])]

\* mutant: the geometry type is not looked at
validateCountryFeatureAnyGeometry(feature) ==
    /\ feature.truthy
    /\ feature.type = "Feature"
    /\ feature.properties # Null
    /\ \/ TypeOf(feature.properties[1].NAME) = "string"
       \/ TypeOf(feature.properties[1].ADMIN) = "string"
    /\ \/ TypeOf(feature.properties[1].ISO_A2) = "string"
       \/ TypeOf(feature.properties[1].ISO) = "string"
    /\ feature.geometry # Null

validateCountryFeature(feature) ==
    /\ feature.truthy
    /\ feature.type = "Feature"
    /\ feature.properties # Null
    /\ \/ TypeOf(feature.properties[1].NAME) = "string"
       \/ TypeOf(feature.properties[1].ADMIN) = "string"
    /\ \/ TypeOf(feature.properties[1].ISO_A2) = "string"
       \/ TypeOf(feature.properties[1].ISO) = "string"
    /\ feature.geometry # Null
    /\ feature.geometry[1].type \in {"Polygon", "MultiPolygon"}

IsWhiteSpace(ch) == ch = " "
IsDigit(ch) == ch \in {"0", "1", "2", "3", "4", "5", "6", "7", "8", "9"}
DigitValue(ch) ==
    CASE ch = "0" -> 0 [] ch = "1" -> 1 [] ch = "2" -> 2 [] ch = "3" -> 3
      [] ch = "4" -> 4 [] ch = "5" -> 5 [] ch = "6" -> 6 [] ch = "7" -> 7
      [] ch = "8" -> 8 [] ch = "9" -> 9

RECURSIVE SkipWhiteSpace(_)
SkipWhiteSpace(cs) ==
    IF cs # <<>> /\ IsWhiteSpace(Head(cs)) THEN SkipWhiteSpace(Tail(cs)) ELSE cs

\* the digits a character sequence starts with
RECURSIVE LeadingDigits(_)
LeadingDigits(cs) ==
    IF cs # <<>> /\ IsDigit(Head(cs))
    THEN <<Head(cs)>> \o LeadingDigits(Tail(cs))
    ELSE <<>>

RECURSIVE DigitsValue(_, _)
DigitsValue(ds, acc) ==
    IF ds = <<>> THEN acc
    ELSE DigitsValue(Tail(ds), 10 * acc + DigitValue(Head(ds)))

\* parseFloat on strings without decimal point or exponent: white space, an
\* optional sign, then digits up to the first other character; NaN when no
\* digit is found.
parseFloat(cs) ==
    LET body     == SkipWhiteSpace(cs)
        signed   == body # <<>> /\ Head(body) \in {"-", "+"}
        negative == body # <<>> /\ Head(body) = "-"
        digits   == LeadingDigits(IF signed THEN Tail(body) ELSE body)
    IN  IF digits = <<>>
        THEN [nan |-> TRUE, value |-> 0]
        ELSE [nan |-> FALSE,
              value |-> IF negative THEN 0 - DigitsValue(digits, 0)
                                    ELSE DigitsValue(digits, 0)]

parsePopulation(pop) ==
    IF TypeOf(pop) = "number" THEN pop.n
    ELSE IF TypeOf(pop) = "string"
         THEN LET parsed == parseFloat(Chars(pop.s))
              IN  IF parsed.nan THEN 0 ELSE parsed.value
         ELSE 0

\* mutant: ADMIN is preferred to NAME
getBestNameAdminFirst(props) ==
    Or(Or(Or(props.ADMIN, props.NAME), props.NAME_EN), Str("Unknown"))

getBestName(props) ==
    Or(Or(Or(props.NAME, props.ADMIN), props.NAME_EN), Str("Unknown"))

getBestIsoCode(props) == Or(Or(props.ISO_A2, props.ISO), Str(""))

\* the feature built by the map step of prepareCountryData
cleanFeature(feature) ==
    LET props == feature.properties[1]
        name  == getBestName(props)
        isoA2 == getBestIsoCode(props)
    IN  [NAME      |-> name,
         ADMIN     |-> Or(props.ADMIN, name),
         NAME_LONG |-> Or(props.NAME_LONG, name),
         POP_EST   |-> parsePopulation(props.POP_EST),
         ISO_A2    |-> isoA2]

\* mutant: the sentinel ISO code is let through
hasEssentialDataKeepsSentinel(feature) ==
    /\ TypeOf(feature.NAME) = "string"
    /\ feature.NAME.s # "Unknown"
    /\ TypeOf(feature.ISO_A2) = "string"

\* the second filter of prepareCountryData
hasEssentialData(feature) ==
    /\ TypeOf(feature.NAME) = "string"
    /\ feature.NAME.s # "Unknown"
    /\ TypeOf(feature.ISO_A2) = "string"
    /\ feature.ISO_A2.s # "-99"

Letters ==
    <<"a", "b", "c", "d", "e", "f", "g", "h", "i", "j", "k", "l", "m",
      "n", "o", "p", "q", "r", "s", "t", "u", "v", "w", "x", "y", "z">>
Capitals ==
    <<"A", "B", "C", "D", "E", "F", "G", "H", "I", "J", "K", "L", "M",
      "N", "O", "P", "Q", "R", "S", "T", "U", "V", "W", "X", "Y", "Z">>

IsCapital(ch) == \E i \in 1..Len(Capitals) : Capitals[i] = ch

\* the primary collation weight of a character: a letter by its place in the
\* alphabet whatever its case, any other character before the letters
PrimaryWeight(ch) ==
    IF \E i \in 1..Len(Letters) : Letters[i] = ch \/ Capitals[i] = ch
    THEN CHOOSE i \in 1..Len(Letters) : Letters[i] = ch \/ Capitals[i] = ch
    ELSE 0

RECURSIVE ComparePrimary(_, _)
ComparePrimary(a, b) ==
    IF a = <<>> /\ b = <<>> THEN 0
    ELSE IF a = <<>> THEN -1
    ELSE IF b = <<>> THEN 1
    ELSE IF PrimaryWeight(Head(a)) < PrimaryWeight(Head(b)) THEN -1
    ELSE IF PrimaryWeight(Head(a)) > PrimaryWeight(Head(b)) THEN 1
    ELSE ComparePrimary(Tail(a), Tail(b))

\* strings of equal primary weights: the first difference in case decides,
\* the lower-case letter first
RECURSIVE CompareCase(_, _)
CompareCase(a, b) ==
    IF a = <<>> \/ b = <<>> THEN 0
    ELSE IF Head(a) = Head(b) THEN CompareCase(Tail(a), Tail(b))
    ELSE IF IsCapital(Head(b)) THEN -1
    ELSE 1

\* String.prototype.localeCompare on character sequences of letters and
\* spaces
localeCompare(a, b) ==
    IF ComparePrimary(a, b) # 0 THEN ComparePrimary(a, b)
    ELSE CompareCase(a, b)

\* mutant: the comparator's arguments are swapped
compareByNameSwapped(a, b) == localeCompare(Chars(b.NAME.s), Chars(a.NAME.s))

\* the comparator handed to sort
compareByName(a, b) == localeCompare(Chars(a.NAME.s), Chars(b.NAME.s))

\* x put behind the last element that does not sort after it
RECURSIVE InsertSorted(_, _)
InsertSorted(sorted, x) ==
    IF sorted = <<>> THEN <<x>>
    ELSE IF compareByName(sorted[Len(sorted)], x) <= 0 THEN Append(sorted, x)
    ELSE Append(InsertSorted(SubSeq(sorted, 1, Len(sorted) - 1), x),
                sorted[Len(sorted)])

\* Array.prototype.sort with compareByName: a stable sort
RECURSIVE SortFrom(_, _)
SortFrom(sorted, rest) ==
    IF rest = <<>> THEN sorted
    ELSE SortFrom(InsertSorted(sorted, Head(rest)), Tail(rest))

sortByName(features) == SortFrom(<<>>, features)

\* the map step of prepareCountryData
cleanFeatures(features) ==
    [i \in 1..Len(features) |-> cleanFeature(features[i])]

\* a cleaned feature that passed the second filter, read as a CountryFeature
asCountryFeature(feature) ==
    [NAME      |-> feature.NAME.s,
     ADMIN     |-> feature.ADMIN.s,
     NAME_LONG |-> feature.NAME_LONG.s,
     ISO_A2    |-> feature.ISO_A2.s,
     POP_EST   |-> feature.POP_EST]

asCountryFeatures(features) ==
    [i \in 1..Len(features) |-> asCountryFeature(features[i])]

\* a fetched value: whether it is a non-null object, its type tag, and its
\* `features` entry (present or not, an array or not, the array's items)
Collection(tag, present, isArray, items) ==
    [isObject |-> TRUE, type |-> tag,
     features |-> [present |-> present, isArray |-> isArray, items |-> items]]

NotAnObject ==
    [isObject |-> FALSE, type |-> "",
     features |-> [present |-> FALSE, isArray |-> FALSE, items |-> <<>>]]

\* the result of prepareCountryData: it threw, or the list it returned
prepareCountryData(data) ==
    IF ~(data.features.present /\ data.features.isArray)
    THEN [threw |-> TRUE, features |-> <<>>]
    ELSE [threw |-> FALSE,
          features |->
              asCountryFeatures(
                  sortByName(
                      SelectSeq(
                          cleanFeatures(
                                 SelectSeq(data.features.items,
                                           validateCountryFeature)),
                          hasEssentialData)))]

\* mutant: the type tag is not checked
isValidGeoJsonDataNoTag(data) ==
    /\ data.isObject
    /\ data.features.present
    /\ data.features.isArray

isValidGeoJsonData(data) ==
    /\ data.isObject
    /\ data.type = "FeatureCollection"
    /\ data.features.present
    /\ data.features.isArray

----------------------------------------------------------------------------
\* Fetched data

rawFrance ==
    Feature("Feature",
            Props(Str("France"), Str("France"), Undefined, Undefined,
                  Str("FR"), Undefined, Num(67000000)),
            "Polygon")
\* population as a string, ADMIN on the easy allow-list
rawCanada ==
    Feature("Feature",
            Props(Str("Canada"), Str("Canada"), Undefined, Str("Canada"),
                  Str("CA"), Undefined, Str("38000000")),
            "MultiPolygon")
\* no NAME and no ISO_A2: named by ADMIN, coded by ISO
rawVatican ==
    Feature("Feature",
            Props(Undefined, Str("Vatican"), Undefined, Undefined,
                  Undefined, Str("VA"), Num(800)),
            "Polygon")
\* a dependency carrying the ISO code of its sovereign state, its
\* population not a number
rawClipperton ==
    Feature("Feature",
            Props(Str("Clipperton Island"), Undefined, Undefined, Undefined,
                  Str("FR"), Undefined, Str("abc")),
            "Polygon")
\* empty NAME and no ADMIN: named by NAME_EN
rawNameEn ==
    Feature("Feature",
            Props(Str(""), Undefined, Str("France"), Undefined,
                  Undefined, Str("FR"), Str(" 42")),
            "Polygon")
\* NAME and ADMIN disagree
rawNameAndAdmin ==
    Feature("Feature",
            Props(Str("france"), Str("France"), Str("Vatican"), Str("Unknown"),
                  Str("FR"), Str("VA"), Str("12abc")),
            "Polygon")
\* an empty ISO_A2 and no ISO, a negative population as a string
rawEmptyIso ==
    Feature("Feature",
            Props(Str("Vatican"), Undefined, Undefined, Undefined,
                  Str(""), Undefined, Str("-5")),
            "Polygon")
\* the sentinel ISO code
rawSentinelIso ==
    Feature("Feature",
            Props(Str("France"), Str("France"), Undefined, Undefined,
                  Str("-99"), Str("FR"), Num(67000000)),
            "Polygon")
\* no usable name
rawNoName ==
    Feature("Feature",
            Props(Str(""), Undefined, Undefined, Str("France"),
                  Str("FR"), Undefined, Num(5)),
            "Polygon")
\* a NAME that is not a string
rawNumberName ==
    Feature("Feature",
            Props(Num(7), Str("Canada"), Undefined, Undefined,
                  Str("CA"), Undefined, Num(5)),
            "Polygon")
\* the unknown-population marker of the data set
rawUnknownPop ==
    Feature("Feature",
            Props(Str("Vatican"), Str("Vatican"), Undefined, Undefined,
                  Str("VA"), Undefined, Num(-99)),
            "Polygon")
rawPoint ==
    Feature("Feature",
            Props(Str("Vatican"), Str("Vatican"), Undefined, Undefined,
                  Str("VA"), Undefined, Num(800)),
            "Point")
rawNotAFeature ==
    Feature("FeatureCollection",
            Props(Str("France"), Str("France"), Undefined, Undefined,
                  Str("FR"), Undefined, Num(67000000)),
            "Polygon")
rawNoProperties ==
    [truthy |-> TRUE, type |-> "Feature", properties |-> Null,
     geometry |-> Some([type |-> "Polygon"])]
rawNoGeometry ==
    [truthy |-> TRUE, type |-> "Feature",
     properties |-> Some(Props(Str("France"), Str("France"), Undefined,
                               Undefined, Str("FR"), Undefined, Num(1))),
     geometry |-> Null]
rawNull ==
    [truthy |-> FALSE, type |-> "", properties |-> Null, geometry |-> Null]

\* features whose populations lie on and next to the thresholds of the
\* difficulty levels
rawKenya ==
    Feature("Feature",
            Props(Str("Kenya"), Str("Kenya"), Undefined, Undefined,
                  Str("KE"), Undefined, Num(50000000)),
            "Polygon")
rawSpain ==
    Feature("Feature",
            Props(Str("Spain"), Str("Spain"), Undefined, Undefined,
                  Str("ES"), Undefined, Num(50000001)),
            "Polygon")
rawSweden ==
    Feature("Feature",
            Props(Str("Sweden"), Str("Sweden"), Undefined, Undefined,
                  Str("SE"), Undefined, Num(10000000)),
            "Polygon")
rawCuba ==
    Feature("Feature",
            Props(Str("Cuba"), Str("Cuba"), Undefined, Undefined,
                  Str("CU"), Undefined, Num(10000001)),
            "Polygon")
\* a NAME on the easy allow-list with an ADMIN that is not on it
rawAdminOffList ==
    Feature("Feature",
            Props(Str("France"), Str("france"), Undefined, Undefined,
                  Str("FR"), Undefined, Num(800)),
            "Polygon")

RawFeatures ==
    {rawFrance, rawCanada, rawVatican, rawClipperton, rawNameEn,
     rawNameAndAdmin, rawEmptyIso, rawSentinelIso, rawNoName, rawNumberName,
     rawUnknownPop, rawPoint, rawNotAFeature, rawNoProperties, rawNoGeometry,
     rawNull}

FeatureLists == UNION {[1..n -> RawFeatures] : n \in 0..MaxFeatures}

\* what the fetch of the map file may deliver
RawInputs ==
    {Collection("FeatureCollection", TRUE, TRUE, items) : items \in FeatureLists}
    \cup {Collection("Feature", TRUE, TRUE, <<f>>) : f \in RawFeatures}
    \cup {NotAnObject,
          Collection("Topology", TRUE, TRUE, <<>>),
          Collection("FeatureCollection", FALSE, FALSE, <<>>),
          Collection("FeatureCollection", TRUE, FALSE, <<>>)}

\* the collection Dataset is prepared from
RawDataset ==
    Collection("FeatureCollection", TRUE, TRUE,
               <<rawFrance, rawVatican, rawClipperton>>)

\* Bound on the number of features of a collection the pools are taken of.
MaxPool == 3

PoolFeatures ==
    {rawFrance, rawCanada, rawVatican, rawNameAndAdmin, rawKenya, rawSpain,
     rawSweden, rawCuba, rawAdminOffList}

\* collections of features that all pass the normalizer
PoolInputs ==
    {Collection("FeatureCollection", TRUE, TRUE, items) :
        items \in UNION {[1..n -> PoolFeatures] : n \in 0..MaxPool}}

----------------------------------------------------------------------------
\* Reducer

initialState ==
    [currentQuestion |-> Null,
     score           |-> 0,
     totalQuestions  |-> 0,
     selectedCountry |-> Null,
     feedback        |-> <<>>,
     gameStarted     |-> FALSE,
     hoveredCountry  |-> Null,
     difficulty      |-> "easy"]

\* mutant: the total is not cleared
reduceStartGameKeepsTotal(s) ==
    [s EXCEPT !.gameStarted = TRUE, !.score = 0,
              !.selectedCountry = Null, !.feedback = <<>>]

reduceStartGame(s) ==
    [s EXCEPT !.gameStarted = TRUE, !.score = 0, !.totalQuestions = 0,
              !.selectedCountry = Null, !.feedback = <<>>]

\* mutant: the reset clears what START_GAME clears and nothing else
reduceResetGameSpread(s) ==
    [s EXCEPT !.gameStarted = FALSE, !.score = 0, !.totalQuestions = 0,
              !.selectedCountry = Null, !.feedback = <<>>]

reduceResetGame(s) == initialState

\* mutant: the feedback of the previous answer is kept
reduceSetQuestionKeepsFeedback(s, payload) ==
    [s EXCEPT !.currentQuestion = Some(payload),
              !.selectedCountry = Null,
              !.totalQuestions = s.totalQuestions + 1]

reduceSetQuestion(s, payload) ==
    [s EXCEPT !.currentQuestion = Some(payload),
              !.selectedCountry = Null, !.feedback = <<>>,
              !.totalQuestions = s.totalQuestions + 1]

reduceSelectCountry(s, payload) == [s EXCEPT !.selectedCountry = Some(payload)]

reduceSetFeedback(s, payload) == [s EXCEPT !.feedback = payload]

reduceIncrementScore(s) == [s EXCEPT !.score = s.score + 1]

\* mutant: a hover also clears the feedback
reduceSetHoverClearsFeedback(s, payload) ==
    [s EXCEPT !.hoveredCountry = payload, !.feedback = <<>>]

reduceSetHover(s, payload) == [s EXCEPT !.hoveredCountry = payload]

gameReducer(s, action) ==
    CASE action.type = "START_GAME"      -> reduceStartGame(s)
      [] action.type = "RESET_GAME"      -> reduceResetGame(s)
      [] action.type = "SET_QUESTION"    -> reduceSetQuestion(s, action.payload)
      [] action.type = "SELECT_COUNTRY"  -> reduceSelectCountry(s, action.payload)
      [] action.type = "SET_FEEDBACK"    -> reduceSetFeedback(s, action.payload)
      [] action.type = "INCREMENT_SCORE" -> reduceIncrementScore(s)
      [] action.type = "SET_HOVER"       -> reduceSetHover(s, action.payload)
      [] OTHER -> s

Act(t) == [type |-> t]
ActP(t, p) == [type |-> t, payload |-> p]

CorrectFeedback == <<"Correct! Well done!">>
\* mutant: the message names the clicked country only
IncorrectFeedbackSelectedOnly(country, question) ==
    <<"Incorrect. You selected ", country.NAME, ".">>

IncorrectFeedback(country, question) ==
    <<"Incorrect. You selected ", country.NAME,
      ", but the answer was ", question.NAME, ".">>

----------------------------------------------------------------------------
\* Hook

\* mutant: no check for an empty array; countries[randomIndex] is undefined
generateQuestionNoEmptyCheck(s, countries, pick) ==
    IF Len(countries) = 0
    THEN [s EXCEPT !.currentQuestion = Null,
                   !.selectedCountry = Null, !.feedback = <<>>,
                   !.totalQuestions = s.totalQuestions + 1]
    ELSE gameReducer(s, ActP("SET_QUESTION", countries[pick]))

\* generateQuestion over the `countries` array it closed over; `pick` is
\* Math.floor(Math.random() * countries.length), counted from 1.
generateQuestion(s, countries, pick) ==
    IF Len(countries) = 0 THEN s
    ELSE gameReducer(s, ActP("SET_QUESTION", countries[pick]))

Picks(countries) == IF Len(countries) = 0 THEN {1} ELSE 1..Len(countries)

\* mutant: the answer is right only when the very record asked for is clicked
isCorrectSameRecord(country, question) == country = question

\* the comparison of selectCountry
isCorrect(country, question) == country.ISO_A2 = question.ISO_A2

\* the state after the dispatches of an accepted selectCountry(country)
selectDispatches(s, country) ==
    LET s1 == gameReducer(s, ActP("SELECT_COUNTRY", country))
        q  == s.currentQuestion[1]
    IN  IF isCorrect(country, q)
        THEN gameReducer(gameReducer(s1, Act("INCREMENT_SCORE")),
                         ActP("SET_FEEDBACK", CorrectFeedback))
        ELSE gameReducer(s1, ActP("SET_FEEDBACK", IncorrectFeedback(country, q)))

\* mutant: the check for a current question comes after the first dispatch
selectCountryLateGuard(country) ==
    /\ lastOp' = "selectCountry"
    /\ IF state.currentQuestion = Null
       THEN /\ state' = gameReducer(state, ActP("SELECT_COUNTRY", country))
            /\ UNCHANGED <<timers, nScheduled>>
       ELSE /\ nScheduled < MaxSelections
            /\ state' = selectDispatches(state, country)
            /\ timers' = Append(timers, availableCountries)
            /\ nScheduled' = nScheduled + 1
    /\ UNCHANGED <<loadVars, difficulty, mapData, nFired>>

\* mutant: no timer is set after the feedback
selectCountryNoTimer(country) ==
    /\ lastOp' = "selectCountry"
    /\ IF state.currentQuestion = Null
       THEN UNCHANGED state
       ELSE state' = selectDispatches(state, country)
    /\ UNCHANGED <<loadVars, difficulty, mapData, timers, nScheduled, nFired>>

selectCountry(country) ==
    /\ lastOp' = "selectCountry"
    /\ IF state.currentQuestion = Null
       THEN UNCHANGED <<state, timers, nScheduled>>
       ELSE /\ nScheduled < MaxSelections
            /\ state' = selectDispatches(state, country)
            /\ timers' = Append(timers, availableCountries)
            /\ nScheduled' = nScheduled + 1
    /\ UNCHANGED <<loadVars, difficulty, mapData, nFired>>

\* mutant: the callback reads the array of the latest render
TimerFireLatestList ==
    /\ timers # <<>>
    /\ \E pick \in Picks(availableCountries) :
          state' = generateQuestion(state, availableCountries, pick)
    /\ timers' = Tail(timers)
    /\ nFired' = nFired + 1
    /\ lastOp' = "timer"
    /\ UNCHANGED <<loadVars, difficulty, mapData, nScheduled>>

\* the callback passed to setTimeout runs
TimerFire ==
    /\ timers # <<>>
    /\ \E pick \in Picks(Head(timers)) :
          state' = generateQuestion(state, Head(timers), pick)
    /\ timers' = Tail(timers)
    /\ nFired' = nFired + 1
    /\ lastOp' = "timer"
    /\ UNCHANGED <<loadVars, difficulty, mapData, nScheduled>>

startGame ==
    /\ \E pick \in Picks(availableCountries) :
          state' = generateQuestion(gameReducer(state, Act("START_GAME")),
                                    availableCountries, pick)
    /\ lastOp' = "startGame"
    /\ UNCHANGED <<loadVars, difficulty, mapData, timers, nScheduled, nFired>>

\* mutant: the reset clears the pending timers
resetGameClearsTimers ==
    /\ state' = gameReducer(state, Act("RESET_GAME"))
    /\ lastOp' = "resetGame"
    /\ timers' = <<>>
    /\ UNCHANGED <<loadVars, difficulty, mapData, nScheduled, nFired>>

resetGame ==
    /\ state' = gameReducer(state, Act("RESET_GAME"))
    /\ lastOp' = "resetGame"
    /\ UNCHANGED <<loadVars, difficulty, mapData, timers, nScheduled, nFired>>

setHoveredCountry(country) ==
    /\ state' = gameReducer(state, ActP("SET_HOVER", country))
    /\ lastOp' = "setHoveredCountry"
    /\ UNCHANGED <<loadVars, difficulty, mapData, timers, nScheduled, nFired>>

----------------------------------------------------------------------------
\* Component

\* mutant: the running game is not reset
handleDifficultyChangeNoReset(newDifficulty) ==
    /\ difficulty' = newDifficulty
    /\ lastOp' = IF state.gameStarted
                 THEN "handleDifficultyChange+resetGame"
                 ELSE "handleDifficultyChange"
    /\ UNCHANGED <<loadVars, state, mapData, timers, nScheduled, nFired>>

handleDifficultyChange(newDifficulty) ==
    /\ difficulty' = newDifficulty
    /\ IF state.gameStarted
       THEN /\ state' = gameReducer(state, Act("RESET_GAME"))
            /\ lastOp' = "handleDifficultyChange+resetGame"
       ELSE /\ state' = state
            /\ lastOp' = "handleDifficultyChange"
    /\ UNCHANGED <<loadVars, mapData, timers, nScheduled, nFired>>

\* How the fetch ended: "ok" for a response with an ok status, "notOk" for
\* a response with another status, "rejected" for a rejected fetch,
\* "badJson" for a body that is not JSON.
\* the message of what the try block of loadMapData throws, if it throws
loadFailure(resp, data) ==
    IF resp = "rejected" THEN Some("Failed to fetch")
    ELSE IF resp = "notOk" THEN Some("Failed to load map data: 404 Not Found")
    ELSE IF resp = "badJson" THEN Some("Unexpected token < in JSON at position 0")
    ELSE IF ~isValidGeoJsonData(data)
    THEN Some("Invalid GeoJSON data structure - missing required properties")
    ELSE IF prepareCountryData(data).threw
    THEN Some("Invalid GeoJSON data structure")
    ELSE Null

\* mutant: the status of the response is not looked at
loadMapDataIgnoresStatus ==
    /\ loading
    /\ lastOp' = "loadMapData"
    /\ IF loadFailure(IF response = "notOk" THEN "ok" ELSE response, rawData) # Null
       THEN /\ error' = loadFailure(IF response = "notOk" THEN "ok" ELSE response,
                                    rawData)
            /\ UNCHANGED mapData
       ELSE /\ mapData' = Some(prepareCountryData(rawData).features)
            /\ UNCHANGED error
    /\ loading' = FALSE
    /\ UNCHANGED <<response, rawData, state, difficulty, timers, nScheduled,
                   nFired>>

\* the effect that loads the map file, from the end of the fetch on
loadMapData ==
    /\ loading
    /\ lastOp' = "loadMapData"
    /\ IF loadFailure(response, rawData) # Null
       THEN /\ error' = loadFailure(response, rawData)
            /\ UNCHANGED mapData
       ELSE /\ mapData' = Some(prepareCountryData(rawData).features)
            /\ UNCHANGED error
    /\ loading' = FALSE
    /\ UNCHANGED <<response, rawData, state, difficulty, timers, nScheduled,
                   nFired>>

\* The map renders a path per available country; clicks and hovers come
\* from those paths, mouse-leave hovers null.
Clickable == Range(availableCountries)
Hoverable == {Null} \cup {Some(c) : c \in Clickable}

Init ==
    /\ state = initialState
    /\ difficulty = "easy"
    /\ mapData = Some(Dataset)
    /\ rawData = RawDataset
    /\ response = "ok"
    /\ loading = FALSE
    /\ error = Null
    /\ timers = <<>>
    /\ nScheduled = 0
    /\ nFired = 0
    /\ lastOp = "init"

Next ==
    \/ startGame
    \/ resetGame
    \/ \E c \in Clickable : selectCountry(c)
    \/ \E h \in Hoverable : setHoveredCountry(h)
    \/ \E d \in Difficulties : handleDifficultyChange(d)
    \/ TimerFire

Spec == Init /\ [][Next]_vars

\* The event loop runs every timer callback that is due.
FairSpec == Spec /\ WF_vars(TimerFire)

\* The handlers as the rendered controls offer them: GameControls shows the
\* start button and the difficulty buttons only while no game is started,
\* and the reset button only while one is.
clickStart == ~state.gameStarted /\ startGame
clickReset == state.gameStarted /\ resetGame
clickDifficulty(d) == ~state.gameStarted /\ handleDifficultyChange(d)

UINext ==
    \/ clickStart
    \/ clickReset
    \/ \E c \in Clickable : selectCountry(c)
    \/ \E h \in Hoverable : setHoveredCountry(h)
    \/ \E d \in Difficulties : clickDifficulty(d)
    \/ TimerFire

UISpec == Init /\ [][UINext]_vars

\* The rendered game with an event loop that runs every timer callback
\* that is due.
FairUISpec == UISpec /\ WF_vars(TimerFire)

\* The component while the map file is loading: the game is not rendered.
NormInit ==
    /\ state = initialState
    /\ difficulty = "easy"
    /\ mapData = Null
    /\ response = "ok"
    /\ rawData \in RawInputs
    /\ loading = TRUE
    /\ error = Null
    /\ timers = <<>>
    /\ nScheduled = 0
    /\ nFired = 0
    /\ lastOp = "init"

NormNext == loadMapData

NormSpec == NormInit /\ [][NormNext]_vars

\* The component after a successful load, before a game is started: the
\* difficulty buttons recompute the available list.
PoolInit ==
    /\ state = initialState
    /\ difficulty = "easy"
    /\ rawData \in PoolInputs
    /\ mapData = Some(prepareCountryData(rawData).features)
    /\ response = "ok"
    /\ loading = FALSE
    /\ error = Null
    /\ timers = <<>>
    /\ nScheduled = 0
    /\ nFired = 0
    /\ lastOp = "init"

PoolNext == \E d \in Difficulties : clickDifficulty(d)

PoolSpec == PoolInit /\ [][PoolNext]_vars

\* The whole component: the load, then the game once it is rendered. The
\* component returns the loading screen while loading and the error screen
\* while error is set.
AppInputs ==
    {<<"ok", RawDataset>>,
     <<"ok", Collection("FeatureCollection", TRUE, TRUE, <<>>)>>,
     <<"ok", Collection("Topology", TRUE, TRUE, <<rawFrance>>)>>,
     <<"ok", Collection("FeatureCollection", FALSE, FALSE, <<>>)>>,
     <<"ok", NotAnObject>>,
     <<"notOk", RawDataset>>,
     <<"rejected", NotAnObject>>,
     <<"badJson", NotAnObject>>}

AppInit ==
    /\ state = initialState
    /\ difficulty = "easy"
    /\ mapData = Null
    /\ \E input \in AppInputs : response = input[1] /\ rawData = input[2]
    /\ loading = TRUE
    /\ error = Null
    /\ timers = <<>>
    /\ nScheduled = 0
    /\ nFired = 0
    /\ lastOp = "init"

gameRendered == ~loading /\ error = Null

AppNext ==
    \/ loadMapData
    \/ gameRendered /\ UINext

AppSpec == AppInit /\ [][AppNext]_vars

----------------------------------------------------------------------------
\* Claims

\* C1: after every sequence of operations score and totalQuestions are
\* non-negative and score <= totalQuestions.
C1_ScoreAtMostTotal ==
    /\ state.score >= 0
    /\ state.totalQuestions >= 0
    /\ state.score <= state.totalQuestions

\* C2: a Reset in any reachable state yields exactly the initial state:
\* score 0, totalQuestions 0, no question, no selection, empty feedback,
\* no hovered country, gameStarted false.
C2_ResetYieldsInitial ==
    lastOp = "resetGame" =>
        /\ state.score = 0
        /\ state.totalQuestions = 0
        /\ state.currentQuestion = <<>>
        /\ state.selectedCountry = <<>>
        /\ state.feedback = <<>>
        /\ state.hoveredCountry = <<>>
        /\ state.gameStarted = FALSE
        /\ state.difficulty = "easy"

C2_Witness ==
    /\ lastOp = "resetGame"
    /\ nScheduled >= 1
    /\ timers # <<>>

\* C3: an accepted SelectCountry decides correctness by equality of the ISO
\* codes of the clicked record and of the current question alone: on
\* equality score grows by exactly 1, otherwise score is unchanged; either
\* way selectedCountry becomes the clicked record and totalQuestions and
\* currentQuestion are unchanged.
C3_SelectByIsoCode ==
    [][\A c \in Range(Dataset) :
          (selectCountry(c) /\ state.currentQuestion # <<>>) =>
              /\ state'.score =
                    IF c.ISO_A2 = state.currentQuestion[1].ISO_A2
                    THEN state.score + 1 ELSE state.score
              /\ state'.selectedCountry = <<c>>
              /\ state'.totalQuestions = state.totalQuestions
              /\ state'.currentQuestion = state.currentQuestion]_vars

\* a wrong answer after a right one, and a right answer given by clicking a
\* record other than the one asked for
C3_Witness ==
    /\ lastOp = "selectCountry"
    /\ state.currentQuestion # <<>>
    /\ state.selectedCountry # <<>>
    /\ state.selectedCountry # state.currentQuestion
    /\ state.selectedCountry[1].ISO_A2 = state.currentQuestion[1].ISO_A2
    /\ state.score = 2
    /\ state.totalQuestions = 2

\* C4: every accepted SelectCountry sets exactly one timer; a timer leaves
\* the pending list only by firing, once; Reset, ChangeDifficulty, Start,
\* SetHover and further selections cancel none; and n accepted selections
\* lead to n firings.
C4_TimerPerSelection ==
    /\ [](nScheduled = nFired + Len(timers))
    /\ [][/\ (\A c \in Range(Dataset) :
                 (selectCountry(c) /\ state.currentQuestion # <<>>) =>
                     /\ Len(timers') = Len(timers) + 1
                     /\ SubSeq(timers', 1, Len(timers)) = timers
                     /\ nFired' = nFired)
          /\ (TimerFire =>
                 /\ timers = <<Head(timers)>> \o timers'
                 /\ nFired' = nFired + 1)
          /\ (nFired' # nFired => TimerFire)
          /\ (~TimerFire => SubSeq(timers', 1, Len(timers)) = timers)]_vars
    /\ \A n \in 1..MaxSelections : (nScheduled >= n) ~> (nFired >= n)

\* every selection made and every timer fired, the last of them after the
\* game was reset
C4_Witness ==
    /\ lastOp = "timer"
    /\ nScheduled = MaxSelections
    /\ nFired = nScheduled
    /\ ~state.gameStarted
    /\ state.currentQuestion # <<>>

C6_SelectWithoutQuestionIsNoOp ==
    [][\A c \in Range(Dataset) :
          (selectCountry(c) /\ state.currentQuestion = <<>>) =>
              /\ state' = state
              /\ timers' = timers
              /\ nScheduled' = nScheduled]_vars

\* a country was clicked while no question was set
C6_Witness ==
    /\ lastOp = "selectCountry"
    /\ state.currentQuestion = <<>>
    /\ state.feedback = <<>>

\* C7: DrawQuestion on an empty list sets no question, does not increment
\* totalQuestions and changes no other field: a timer that fires on an empty
\* list leaves the state as it is, and Start on an empty list does what
\* START_GAME does and no more.
C7_DrawOnEmptyListIsNoOp ==
    [][/\ ((TimerFire /\ Head(timers) = <<>>) => state' = state)
       /\ ((startGame /\ availableCountries = <<>>) =>
              state' = [state EXCEPT !.gameStarted = TRUE, !.score = 0,
                                     !.totalQuestions = 0,
                                     !.selectedCountry = <<>>,
                                     !.feedback = <<>>])]_vars

\* the game was started on the empty medium list
C7_Witness ==
    /\ lastOp = "startGame"
    /\ availableCountries = <<>>
    /\ state.gameStarted
    /\ state.totalQuestions = 0

\* C8: DrawQuestion on a non-empty list sets currentQuestion to a member of
\* that list, clears selectedCountry and feedback, increments totalQuestions
\* by exactly 1 and leaves score, gameStarted and hoveredCountry unchanged.
C8_DrawSetsQuestion ==
    [][(TimerFire /\ Head(timers) # <<>>) =>
          /\ state'.currentQuestion # <<>>
          /\ state'.currentQuestion[1] \in Range(Head(timers))
          /\ state'.selectedCountry = <<>>
          /\ state'.feedback = <<>>
          /\ state'.totalQuestions = state.totalQuestions + 1
          /\ state'.score = state.score
          /\ state'.gameStarted = state.gameStarted
          /\ state'.hoveredCountry = state.hoveredCountry
          /\ state'.difficulty = state.difficulty]_vars

\* a question drawn by a timer, with a score, a running game and a hovered
\* country to keep
C8_Witness ==
    /\ lastOp = "timer"
    /\ state.currentQuestion # <<>>
    /\ state.totalQuestions = 2
    /\ state.score = 1
    /\ state.gameStarted
    /\ state.hoveredCountry # <<>>

\* C9: Start with a non-empty available list, from any state, gives
\* gameStarted = true, score = 0, no selection, empty feedback, a
\* currentQuestion of the available list and totalQuestions = 1.
C9_StartDrawsFirstQuestion ==
    (lastOp = "startGame" /\ availableCountries # <<>>) =>
        /\ state.gameStarted = TRUE
        /\ state.score = 0
        /\ state.selectedCountry = <<>>
        /\ state.feedback = <<>>
        /\ state.currentQuestion # <<>>
        /\ state.currentQuestion[1] \in Range(availableCountries)
        /\ state.totalQuestions = 1

\* the game was started again after answers had been given, with a timer of
\* the earlier game still pending
C9_Witness ==
    /\ lastOp = "startGame"
    /\ availableCountries # <<>>
    /\ nFired >= 1
    /\ timers # <<>>

\* C10: ChangeDifficulty(level) during a game resets the session state to
\* the initial defaults and makes the available list the difficulty filter
\* of the normalized list for the new level; with no game in progress it
\* changes the active difficulty and the available list only.
C10_ChangeDifficulty ==
    [][\A d \in Difficulties :
          handleDifficultyChange(d) =>
              /\ difficulty' = d
              /\ availableCountries' =
                    SelectSeq(mapData[1], LAMBDA x : DifficultyFilter(d, x))
              /\ mapData' = mapData
              /\ timers' = timers
              /\ IF state.gameStarted
                 THEN /\ state'.currentQuestion = <<>>
                      /\ state'.score = 0
                      /\ state'.totalQuestions = 0
                      /\ state'.selectedCountry = <<>>
                      /\ state'.feedback = <<>>
                      /\ state'.gameStarted = FALSE
                      /\ state'.hoveredCountry = <<>>
                      /\ state'.difficulty = "easy"
                 ELSE state' = state]_vars

\* the difficulty was changed to hard during a game
C10_Witness ==
    /\ lastOp = "handleDifficultyChange+resetGame"
    /\ difficulty = "hard"
    /\ Len(availableCountries) = 3
    /\ ~state.gameStarted

\* C11: after an accepted SelectCountry the feedback is non-empty and
\* contains "Correct" exactly when the ISO codes matched; on a mismatch it
\* contains the display names of the clicked country and of the country
\* asked for.
C11_FeedbackMarker ==
    [][\A c \in Range(Dataset) :
          (selectCountry(c) /\ state.currentQuestion # <<>>) =>
              LET text == TemplateChars(state'.feedback)
                  q    == state.currentQuestion[1]
              IN  /\ text # <<>>
                  /\ Includes(text, Chars("Correct")) <=> (c.ISO_A2 = q.ISO_A2)
                  /\ (c.ISO_A2 # q.ISO_A2) =>
                        /\ Includes(text, Chars(c.NAME))
                        /\ Includes(text, Chars(q.NAME))]_vars

\* a wrong answer was given and its feedback is shown
C11_Witness ==
    /\ lastOp = "selectCountry"
    /\ state.currentQuestion # <<>>
    /\ state.selectedCountry # <<>>
    /\ state.selectedCountry[1].ISO_A2 # state.currentQuestion[1].ISO_A2
    /\ state.feedback # <<>>
    /\ ~Includes(TemplateChars(state.feedback), Chars("Correct"))

\* the map file has been loaded and normalized into the list `mapData`
Loaded == lastOp = "loadMapData" /\ mapData # Null

\* the features of the fetched collection
RawItems == rawData.features.items

\* C12: every record of a normalized list has a non-empty name other than
\* "Unknown" and an ISO code other than the sentinel "-99".
C12_NamedAndNotSentinel ==
    Loaded =>
        \A i \in 1..Len(mapData[1]) :
            /\ mapData[1][i].NAME # ""
            /\ mapData[1][i].NAME # "Unknown"
            /\ mapData[1][i].ISO_A2 # "-99"

\* a list was produced from a collection holding a sentinel-coded feature
C12_Witness ==
    /\ Loaded
    /\ Len(mapData[1]) >= 1
    /\ \E i \in 1..Len(RawItems) : RawItems[i] = rawSentinelIso

\* C13: every record of a normalized list has a non-empty ISO code.
C13_IsoNonEmpty ==
    Loaded => \A i \in 1..Len(mapData[1]) : mapData[1][i].ISO_A2 # ""

\* C14: no two records of a normalized list have the same ISO code.
C14_NoDuplicateIso ==
    Loaded =>
        \A i, j \in 1..Len(mapData[1]) :
            mapData[1][i].ISO_A2 = mapData[1][j].ISO_A2 => i = j

\* the records of the accepted features, in input order
C15_InInputOrder ==
    asCountryFeatures(
           SelectSeq(cleanFeatures(
                            SelectSeq(RawItems, validateCountryFeature)),
                     hasEssentialData))

C15_Named(list, name) == SelectSeq(list, LAMBDA r : r.NAME = name)

\* C15: a normalized list is in ascending order of name, and its records of
\* one name are in the order of the input.
C15_SortedAndStable ==
    Loaded =>
        /\ \A i, j \in 1..Len(mapData[1]) :
              i < j => localeCompare(Chars(mapData[1][i].NAME),
                                     Chars(mapData[1][j].NAME)) <= 0
        /\ \A r \in Range(mapData[1]) :
              C15_Named(mapData[1], r.NAME) = C15_Named(C15_InInputOrder, r.NAME)

\* the list was reordered, and two different records of one name are in it
C15_Witness ==
    /\ Loaded
    /\ mapData[1] # C15_InInputOrder
    /\ \E i, j \in 1..Len(mapData[1]) :
          /\ i < j
          /\ mapData[1][i].NAME = mapData[1][j].NAME
          /\ mapData[1][i] # mapData[1][j]

\* C16: loading a value that is not tagged as a feature collection, or whose
\* features entry is missing or not an array, ends in an error with no list;
\* loading a well-formed collection without features gives the empty list
\* and no error.
C16_MalformedFailsEmptyLoads ==
    lastOp = "loadMapData" =>
        /\ (\/ ~rawData.isObject
            \/ rawData.type # "FeatureCollection"
            \/ ~rawData.features.present
            \/ ~rawData.features.isArray)
              => (error # Null /\ mapData = Null)
        /\ rawData = Collection("FeatureCollection", TRUE, TRUE, <<>>)
              => (error = Null /\ mapData = Some(<<>>))

\* an array of features under another tag was refused
C16_Witness ==
    /\ lastOp = "loadMapData"
    /\ rawData.isObject
    /\ rawData.type # "FeatureCollection"
    /\ rawData.features.isArray
    /\ Len(RawItems) >= 1
    /\ error # Null
    /\ mapData = Null

\* a feature tagged as a feature, with properties, a name field, an ISO
\* code field and a polygon or multi-polygon geometry
C17_Acceptable(f) ==
    /\ f.truthy
    /\ f.type = "Feature"
    /\ f.properties # Null
    /\ "string" \in {TypeOf(f.properties[1].NAME), TypeOf(f.properties[1].ADMIN)}
    /\ "string" \in {TypeOf(f.properties[1].ISO_A2), TypeOf(f.properties[1].ISO)}
    /\ f.geometry # Null
    /\ f.geometry[1].type \in {"Polygon", "MultiPolygon"}

\* C17: every record of a normalized list is the record of an acceptable
\* feature; the other features raise no error and the list is the one
\* normalized from the acceptable features alone.
C17_OnlyAcceptableFeatures ==
    (lastOp = "loadMapData" /\ isValidGeoJsonData(rawData)) =>
        /\ error = Null
        /\ mapData # Null
        /\ \A r \in Range(mapData[1]) :
              \E i \in 1..Len(RawItems) :
                  /\ C17_Acceptable(RawItems[i])
                  /\ asCountryFeature(cleanFeature(RawItems[i])) = r
        /\ mapData[1] =
              prepareCountryData(
                  Collection("FeatureCollection", TRUE, TRUE,
                             SelectSeq(RawItems, C17_Acceptable))).features

\* a list was produced from a collection holding a feature without polygon
C17_Witness ==
    /\ Loaded
    /\ Len(mapData[1]) >= 1
    /\ \E i \in 1..Len(RawItems) : RawItems[i] = rawPoint

\* C18: every record of a normalized list has a population of at least 0.
C18_PopulationNonNegative ==
    Loaded => \A i \in 1..Len(mapData[1]) : mapData[1][i].POP_EST >= 0

\* a feature that contributes a record
C19_Accepted(f) ==
    validateCountryFeature(f) /\ hasEssentialData(cleanFeature(f))

\* the first of the values that is a non-empty string
C19_FirstAvailable(values) ==
    values[CHOOSE i \in 1..Len(values) :
               /\ Truthy(values[i])
               /\ \A j \in 1..(i - 1) : ~Truthy(values[j])].s

\* C19: the record of an accepted feature is named by the first available
\* of NAME, ADMIN and NAME_EN, and its ADMIN and NAME_LONG are the feature's
\* own when available and the resolved name otherwise.
C19_NameFallbackChain ==
    Loaded =>
        /\ Len(mapData[1]) = Len(SelectSeq(RawItems, C19_Accepted))
        /\ \A i \in 1..Len(RawItems) :
              C19_Accepted(RawItems[i]) =>
                  LET p    == RawItems[i].properties[1]
                      name == C19_FirstAvailable(<<p.NAME, p.ADMIN, p.NAME_EN>>)
                  IN  \E r \in Range(mapData[1]) :
                          /\ r.NAME = name
                          /\ r.ADMIN = C19_FirstAvailable(<<p.ADMIN, Str(name)>>)
                          /\ r.NAME_LONG =
                                 C19_FirstAvailable(<<p.NAME_LONG, Str(name)>>)
                          /\ r.ISO_A2 = cleanFeature(RawItems[i]).ISO_A2.s

\* a record was named by NAME_EN, another by a NAME that differs from ADMIN
C19_Witness ==
    /\ Loaded
    /\ \E i \in 1..Len(RawItems) : RawItems[i] = rawNameEn
    /\ \E i \in 1..Len(RawItems) : RawItems[i] = rawNameAndAdmin
    /\ Len(mapData[1]) = 2

\* the pools of the loaded list
C20_InPool(r, d) == r \in Range(filterCountriesByDifficulty(mapData[1], d))
C20_HardOnly(r) ==
    C20_InPool(r, "hard") /\ ~C20_InPool(r, "easy") /\ ~C20_InPool(r, "medium")

\* C20 as stated: every record of a normalized list is in exactly one of
\* easy, medium and hard-only, so that none is both easy and medium.
C20_Partition ==
    Loaded =>
        \A r \in Range(mapData[1]) :
            /\ C20_InPool(r, "easy") \/ C20_InPool(r, "medium") \/ C20_HardOnly(r)
            /\ ~(C20_InPool(r, "easy") /\ C20_InPool(r, "medium"))

\* C20, amended: every record of a normalized list is in the hard pool and
\* in at least one of easy, medium and hard-only; it is both easy and medium
\* exactly when its ADMIN is on the easy allow-list and its population is
\* above 10 million and at most 50 million.
C20_CoverWithAllowListOverlap ==
    Loaded =>
        \A r \in Range(mapData[1]) :
            /\ C20_InPool(r, "hard")
            /\ C20_InPool(r, "easy") \/ C20_InPool(r, "medium") \/ C20_HardOnly(r)
            /\ (C20_InPool(r, "easy") /\ C20_InPool(r, "medium"))
                  <=> (/\ r.ADMIN \in EasyNames
                       /\ r.POP_EST > 10000000
                       /\ r.POP_EST <= 50000000)

\* a record of the list is in the easy pool and in the medium pool
C20_Witness ==
    /\ Loaded
    /\ \E r \in Range(mapData[1]) :
          C20_InPool(r, "easy") /\ C20_InPool(r, "medium")

\* the records of the loaded list and the records of the available list
C21_Loaded == Range(mapData[1])
C21_Pool == Range(availableCountries)

\* C21 as stated: the easy pool of a normalized list is the set of its
\* records with a population above 50 million or a NAME on the allow-list.
C21_EasyByName ==
    (mapData # Null /\ difficulty = "easy") =>
        C21_Pool = {r \in C21_Loaded :
                       r.POP_EST > 50000000 \/ r.NAME \in EasyNames}

\* C21, amended: the easy pool of a normalized list is the set of its
\* records with a population above 50 million or an ADMIN on the allow-list.
C21_EasyByAdmin ==
    (mapData # Null /\ difficulty = "easy") =>
        C21_Pool = {r \in C21_Loaded :
                       r.POP_EST > 50000000 \/ r.ADMIN \in EasyNames}

\* easy was chosen for a list with a record that is easy by its ADMIN only
\* and a record with the population of the threshold
C21_Witness ==
    /\ lastOp = "handleDifficultyChange"
    /\ difficulty = "easy"
    /\ \E r \in C21_Pool : r.POP_EST <= 50000000 /\ r.NAME \notin EasyNames
    /\ \E r \in C21_Loaded \ C21_Pool : r.POP_EST = 50000000

\* C22: the medium pool of a normalized list is the set of its records with
\* a population above 10 million and of at most 50 million; the hard pool is
\* the list itself.
C22_MediumRangeHardIdentity ==
    mapData # Null =>
        /\ difficulty = "medium" =>
              /\ C21_Pool = {r \in C21_Loaded :
                                r.POP_EST > 10000000 /\ r.POP_EST <= 50000000}
              /\ Len(availableCountries) =
                     Len(SelectSeq(mapData[1],
                                   LAMBDA r : r.POP_EST > 10000000
                                              /\ r.POP_EST <= 50000000))
        /\ difficulty = "hard" => availableCountries = mapData[1]

\* medium was chosen for a list with the records on both thresholds
C22_Witness ==
    /\ lastOp = "handleDifficultyChange"
    /\ difficulty = "medium"
    /\ \E r \in C21_Pool : r.POP_EST = 50000000
    /\ \E r \in C21_Loaded \ C21_Pool : r.POP_EST = 10000000

C24_WellFormed ==
    /\ response = "ok"
    /\ rawData.isObject
    /\ rawData.type = "FeatureCollection"
    /\ rawData.features.present
    /\ rawData.features.isArray

\* C24: once the load has finished, loading is false and exactly one of the
\* list and the error is present; if the fetch failed or its data is not a
\* well-formed feature collection it is the error, no country is available
\* and no question is ever set; and nothing loads again.
C24_LoadFailureIsTerminal ==
    /\ [](lastOp # "init" =>
             /\ ~loading
             /\ (mapData # Null) # (error # Null)
             /\ ~C24_WellFormed =>
                   /\ error # Null
                   /\ error # Some("")
                   /\ mapData = Null
                   /\ availableCountries = <<>>
                   /\ state.currentQuestion = Null)
    /\ [][~loading =>
              /\ ~loading'
              /\ error' = error
              /\ mapData' = mapData]_vars

\* the fetch ended with an error status and the load with that error
C24_Witness ==
    /\ lastOp = "loadMapData"
    /\ response = "notOk"
    /\ ~loading
    /\ error # Null
    /\ mapData = Null

\* C25: SetHover can be called in every state, with a record or with
\* none; it sets hoveredCountry and leaves every other field of the session,
\* the pending timers, the difficulty and the loaded list as they were.
C25_HoverChangesOnlyHover ==
    /\ [](\A h \in Hoverable : ENABLED setHoveredCountry(h))
    /\ [][\A h \in Hoverable :
              setHoveredCountry(h) =>
                  /\ state' = [state EXCEPT !.hoveredCountry = h]
                  /\ timers' = timers
                  /\ nScheduled' = nScheduled
                  /\ difficulty' = difficulty
                  /\ mapData' = mapData]_vars

\* a country is hovered while the feedback of an answer is shown and the
\* timer of that answer is pending
C25_Witness ==
    /\ lastOp = "setHoveredCountry"
    /\ state.hoveredCountry # Null
    /\ state.feedback # <<>>
    /\ state.score = 1
    /\ timers # <<>>

\* an answer has just been accepted in a started game
C26_Answered ==
    /\ lastOp = "selectCountry"
    /\ state.gameStarted
    /\ state.currentQuestion # Null
    /\ state.feedback # <<>>

\* C26: after an accepted SelectCountry in a started game, the game is reset
\* or, later, the feedback is empty and totalQuestions is larger than it
\* was, provided every timer that is due fires.
C26_AnswerLeadsToNextQuestion ==
    \A k \in 0..(MaxSelections + 1) :
        (C26_Answered /\ state.totalQuestions = k)
            ~> (\/ ~state.gameStarted
                \/ state.feedback = <<>> /\ state.totalQuestions > k)

\* the timer of the first answer has fired: the second question is asked
C26_Witness ==
    /\ lastOp = "timer"
    /\ state.gameStarted
    /\ nScheduled = 1
    /\ nFired = 1
    /\ state.feedback = <<>>
    /\ state.totalQuestions = 2

\* totalQuestions stays within the range C26 is stated for
C26_TotalInRange == state.totalQuestions <= MaxSelections + 1

\* C27: whenever a question is set, the country asked for is one of the
\* available countries.
C27_QuestionIsAvailable ==
    state.currentQuestion # Null =>
        state.currentQuestion[1] \in Range(availableCountries)

\* C28: whenever no game is started, the session has no question, no
\* selected country, empty feedback, score 0 and totalQuestions 0.
C28_NotStartedIsDefault ==
    ~state.gameStarted =>
        /\ state.currentQuestion = Null
        /\ state.selectedCountry = Null
        /\ state.feedback = <<>>
        /\ state.score = 0
        /\ state.totalQuestions = 0

\* C29: whenever a game is started, a question is set.
C29_StartedHasQuestion ==
    state.gameStarted => state.currentQuestion # Null

\* C30: the difficulty field of the session state is the difficulty the
\* available list is computed with.
C30_DifficultyFieldIsActive ==
    state.difficulty = difficulty

====
